---- MODULE Spec2Model ----
(***************************************************************************)
(* Sequence-based content-defined chunking (seq_chunking): configuration   *)
(* validation, chunker construction, the cutpoint finder and the chunk     *)
(* iterator, modelled from src/src/config.rs and src/src/chunker.rs.       *)
(*                                                                         *)
(* u64 and usize are modelled as one unsigned type of WordMax + 1 values   *)
(* (a 64-bit target, where usize and u64 have the same width); u8 is       *)
(* modelled by the byte values 0 .. MaxByte.  A Rust slice is a sequence,  *)
(* so the 0-based index k of the source is k + 1 here.                     *)
(***************************************************************************)
EXTENDS Integers, Sequences, FiniteSets, TLC

\* ------------------------------------------------------------------ bounds

\* Largest value of the unsigned integer type (u64::MAX, scaled down).
WordMax == 15
\* Longest caller-owned buffer.
MaxLen == 3
\* Largest block size a configuration is given.
MaxBlock == 3

\* Byte values: enough for equal, increasing and decreasing neighbours and
\* for a strictly monotonic run of two comparisons.
Bytes == {0, 1, 2}
SeqThresholds == {0, 1, 2}
JumpTriggers == {0, 1, 2}
JumpSizes == {0, 1, 2, WordMax}
MinBlockSizes == 0 .. (MaxBlock - 1)
MaxBlockSizes == 0 .. MaxBlock
\* avg_block_size is informational: no code path of the chunker reads it.
AvgBlockSizes == {MaxBlock - 1}

Word == 0 .. WordMax

Min(a, b) == IF a < b THEN a ELSE b

\* All sequences over S of length at most n.
SeqsUpTo(S, n) == UNION {[1 .. k -> S] : k \in 0 .. n}

Buffers == SeqsUpTo(Bytes, MaxLen)

\* ------------------------------------------------------------ config.rs

SeqOpMode == {"Increasing", "Decreasing"}

ChunkingConfig ==
    [seq_threshold : SeqThresholds,
     jump_trigger : JumpTriggers,
     jump_size : JumpSizes,
     op_mode : SeqOpMode,
     min_block_size : MinBlockSizes,
     avg_block_size : AvgBlockSizes,
     max_block_size : MaxBlockSizes]

\* Placeholder held where the source holds no configuration at all.
NoConfig ==
    [seq_threshold |-> 0, jump_trigger |-> 0, jump_size |-> 0,
     op_mode |-> "Increasing", min_block_size |-> 0, avg_block_size |-> 0,
     max_block_size |-> 0]

\* validate with the jump_size rule left out.
validate_NoJumpSizeRule(c) ==
    IF c.seq_threshold = 0 THEN "seq_threshold must be greater than 0"
    ELSE IF c.min_block_size = 0 THEN "min_block_size must be greater than 0"
    ELSE IF c.max_block_size < c.min_block_size
        THEN "max_block_size must be >= min_block_size"
    ELSE "Ok"

\* ChunkingConfig::validate: the first failing check decides the message.
validate(c) ==
    IF c.seq_threshold = 0 THEN "seq_threshold must be greater than 0"
    ELSE IF c.min_block_size = 0 THEN "min_block_size must be greater than 0"
    ELSE IF c.max_block_size < c.min_block_size
        THEN "max_block_size must be >= min_block_size"
    ELSE IF c.jump_size = 0 THEN "jump_size must be greater than 0"
    ELSE "Ok"

\* ----------------------------------------------------------- chunker.rs

\* Chunk::end
end(chunk) == chunk.start + chunk.len

\* The tail of a slice from 0-based index p: &data[p..]
SliceFrom(data, p) == SubSeq(data, p + 1, Len(data))
\* The head of a slice: &data[..n]
SliceTo(data, n) == SubSeq(data, 1, n)

\* A find_cutpoint activation.  pc: "idle" (no call), "loop" (inside the scan
\* loop of find_cutpoint_increasing / _decreasing), "ret" (returned ret),
\* "panic" (arithmetic overflow with overflow checks on), "oob" (the panic
\* of a slice index that is out of bounds).  size is the size
\* the scan routine was given (actual_size) and arg_size the size the caller
\* passed to find_cutpoint.  iters counts the loop iterations of the call.
IdleFrame ==
    [pc |-> "idle", buff |-> <<>>, size |-> 0, curr_pos |-> 0,
     opposing_slope_count |-> 0, curr_seq_length |-> 0, ret |-> 0, iters |-> 0,
     arg_size |-> 0]

Returned(f, v) == [f EXCEPT !.pc = "ret", !.ret = v]

\* The bounds check of buff[index].  An index below 0 stands for the result
\* of curr_pos - 1 at curr_pos = 0, which the build either rejects as an
\* overflow or wraps to usize::MAX: the read fails in both.
InBounds(buff, index) == index >= 0 /\ index < Len(buff)

\* The loop body stopped by the bounds check of one of its two reads.
IndexPanic(f) == [f EXCEPT !.pc = "oob", !.iters = Min(f.iters + 1, WordMax)]

\* usize addition curr_pos += n.  With overflow checks (the debug profile) an
\* overflowing add panics; without them (the release profile) it wraps.
AddOverflows(a, n) == a + n > WordMax
WrappingAdd(a, n) == (a + n) % (WordMax + 1)

\* The scan loop with one part changed (v), for either mode (incr: a negative
\* difference is the opposing one).  v = "none" is the loop as it is.
ScanStepVariant(c, f, checks, incr, v) ==
    IF ~(f.curr_pos < f.size /\ f.curr_pos > 0
         /\ (v = "no_len_check" \/ f.curr_pos < Len(f.buff)))
    THEN Returned(f, f.size)
    ELSE IF ~(InBounds(f.buff, f.curr_pos) /\ InBounds(f.buff, f.curr_pos - 1))
    THEN IndexPanic(f)
    ELSE
      LET cmp_result == f.buff[f.curr_pos + 1] - f.buff[f.curr_pos]
          g == [f EXCEPT !.iters = Min(f.iters + 1, WordMax)]
      IN  IF cmp_result = 0 /\ v # "no_absorb"
          THEN IF v = "absorb_resets"
               THEN [g EXCEPT !.curr_pos = f.curr_pos + 1,
                              !.curr_seq_length = 0]
               ELSE [g EXCEPT !.curr_pos = f.curr_pos + 1]
          ELSE
            LET cmp_sign == IF incr THEN cmp_result < 0 ELSE cmp_result > 0
                opp == IF cmp_sign THEN f.opposing_slope_count + 1
                                   ELSE f.opposing_slope_count
                seq == IF cmp_sign THEN 0 ELSE f.curr_seq_length + 1
                h == [g EXCEPT !.opposing_slope_count = opp,
                               !.curr_seq_length = seq]
            IN  IF seq >= c.seq_threshold
                THEN Returned(h, IF v = "cut_after" THEN f.curr_pos + 1
                                 ELSE f.curr_pos)
                ELSE IF opp >= c.jump_trigger
                THEN IF AddOverflows(f.curr_pos, c.jump_size) /\ checks
                     THEN [h EXCEPT !.pc = "panic"]
                     ELSE
                       LET np == WrappingAdd(f.curr_pos, c.jump_size)
                           j == [h EXCEPT !.curr_pos = np,
                                          !.opposing_slope_count = 0,
                                          !.curr_seq_length = 0]
                       IN  IF np >= f.size \/ np >= Len(f.buff)
                           THEN Returned(j, f.size)
                           ELSE j
                ELSE [h EXCEPT !.curr_pos = f.curr_pos + 1]

\* find_cutpoint_increasing, lines 126-129: the locals before the loop.
find_cutpoint_increasing_enter(c, buff, size) ==
    [pc |-> "loop", buff |-> buff, size |-> size,
     curr_pos |-> c.min_block_size,
     opposing_slope_count |-> 0, curr_seq_length |-> 0, ret |-> 0, iters |-> 0,
     arg_size |-> size]

\* The increasing scan whose loop condition bounds the cursor by size only,
\* without curr_pos < buff.len().
find_cutpoint_increasing_NoLenCheck(c, f, checks) ==
    ScanStepVariant(c, f, checks, TRUE, "no_len_check")

\* The increasing scan in which an equal pair breaks the run: it resets the
\* run-length counter.
find_cutpoint_increasing_EqualBreaksRun(c, f, checks) ==
    ScanStepVariant(c, f, checks, TRUE, "absorb_resets")

\* find_cutpoint_increasing, lines 131-166: one evaluation of the loop
\* condition and, when it holds, one pass through the loop body.  checks is
\* TRUE when the build has overflow checks on.
find_cutpoint_increasing_step(c, f, checks) ==
    IF ~(f.curr_pos < f.size /\ f.curr_pos < Len(f.buff) /\ f.curr_pos > 0)
    THEN Returned(f, f.size)
    ELSE IF ~(InBounds(f.buff, f.curr_pos) /\ InBounds(f.buff, f.curr_pos - 1))
    THEN IndexPanic(f)
    ELSE
      LET cmp_result == f.buff[f.curr_pos + 1] - f.buff[f.curr_pos]
          g == [f EXCEPT !.iters = Min(f.iters + 1, WordMax)]
      IN  IF cmp_result = 0
          THEN [g EXCEPT !.curr_pos = f.curr_pos + 1]
          ELSE
            LET cmp_sign == cmp_result < 0
                opp == IF cmp_sign THEN f.opposing_slope_count + 1
                                   ELSE f.opposing_slope_count
                seq == IF cmp_sign THEN 0 ELSE f.curr_seq_length + 1
                h == [g EXCEPT !.opposing_slope_count = opp,
                               !.curr_seq_length = seq]
            IN  IF seq >= c.seq_threshold
                THEN Returned(h, f.curr_pos)
                ELSE IF opp >= c.jump_trigger
                THEN IF AddOverflows(f.curr_pos, c.jump_size) /\ checks
                     THEN [h EXCEPT !.pc = "panic"]
                     ELSE
                       LET np == WrappingAdd(f.curr_pos, c.jump_size)
                           j == [h EXCEPT !.curr_pos = np,
                                          !.opposing_slope_count = 0,
                                          !.curr_seq_length = 0]
                       IN  IF np >= f.size \/ np >= Len(f.buff)
                           THEN Returned(j, f.size)
                           ELSE j
                ELSE [h EXCEPT !.curr_pos = f.curr_pos + 1]

\* find_cutpoint_decreasing, lines 171-174.
find_cutpoint_decreasing_enter(c, buff, size) ==
    [pc |-> "loop", buff |-> buff, size |-> size,
     curr_pos |-> c.min_block_size,
     opposing_slope_count |-> 0, curr_seq_length |-> 0, ret |-> 0, iters |-> 0,
     arg_size |-> size]

\* The decreasing scan without the equal-byte absorption: an equal pair falls
\* through to the sign test and counts as a reinforcing comparison.
find_cutpoint_decreasing_NoAbsorption(c, f, checks) ==
    ScanStepVariant(c, f, checks, FALSE, "no_absorb")

\* The decreasing scan with the sign test of the increasing one.
find_cutpoint_decreasing_SameSign(c, f, checks) ==
    ScanStepVariant(c, f, checks, TRUE, "none")

\* find_cutpoint_decreasing, lines 176-211.
find_cutpoint_decreasing_step(c, f, checks) ==
    IF ~(f.curr_pos < f.size /\ f.curr_pos < Len(f.buff) /\ f.curr_pos > 0)
    THEN Returned(f, f.size)
    ELSE IF ~(InBounds(f.buff, f.curr_pos) /\ InBounds(f.buff, f.curr_pos - 1))
    THEN IndexPanic(f)
    ELSE
      LET cmp_result == f.buff[f.curr_pos + 1] - f.buff[f.curr_pos]
          g == [f EXCEPT !.iters = Min(f.iters + 1, WordMax)]
      IN  IF cmp_result = 0
          THEN [g EXCEPT !.curr_pos = f.curr_pos + 1]
          ELSE
            LET cmp_sign == cmp_result > 0
                opp == IF cmp_sign THEN f.opposing_slope_count + 1
                                   ELSE f.opposing_slope_count
                seq == IF cmp_sign THEN 0 ELSE f.curr_seq_length + 1
                h == [g EXCEPT !.opposing_slope_count = opp,
                               !.curr_seq_length = seq]
            IN  IF seq >= c.seq_threshold
                THEN Returned(h, f.curr_pos)
                ELSE IF opp >= c.jump_trigger
                THEN IF AddOverflows(f.curr_pos, c.jump_size) /\ checks
                     THEN [h EXCEPT !.pc = "panic"]
                     ELSE
                       LET np == WrappingAdd(f.curr_pos, c.jump_size)
                           j == [h EXCEPT !.curr_pos = np,
                                          !.opposing_slope_count = 0,
                                          !.curr_seq_length = 0]
                       IN  IF np >= f.size \/ np >= Len(f.buff)
                           THEN Returned(j, f.size)
                           ELSE j
                ELSE [h EXCEPT !.curr_pos = f.curr_pos + 1]

\* find_cutpoint returning 0 for a short input instead of size.
find_cutpoint_ShortReturnsZero(c, buff, size) ==
    IF size < c.min_block_size
    THEN Returned([IdleFrame EXCEPT !.buff = buff, !.size = size,
                                    !.arg_size = size], 0)
    ELSE
      LET actual_size == Min(size, c.max_block_size)
      IN  [(IF c.op_mode = "Increasing"
            THEN find_cutpoint_increasing_enter(c, buff, actual_size)
            ELSE find_cutpoint_decreasing_enter(c, buff, actual_size))
           EXCEPT !.arg_size = size]

\* find_cutpoint taking the larger of size and max_block_size as the cap.
find_cutpoint_CapIsMax(c, buff, size) ==
    IF size < c.min_block_size
    THEN Returned([IdleFrame EXCEPT !.buff = buff, !.size = size,
                                    !.arg_size = size], size)
    ELSE
      LET actual_size == IF size > c.max_block_size THEN size
                         ELSE c.max_block_size
      IN  [(IF c.op_mode = "Increasing"
            THEN find_cutpoint_increasing_enter(c, buff, actual_size)
            ELSE find_cutpoint_decreasing_enter(c, buff, actual_size))
           EXCEPT !.arg_size = size]

\* find_cutpoint scanning the whole of size, with no cap at max_block_size.
find_cutpoint_NoMaxCap(c, buff, size) ==
    IF size < c.min_block_size
    THEN Returned([IdleFrame EXCEPT !.buff = buff, !.size = size,
                                    !.arg_size = size], size)
    ELSE
      [(IF c.op_mode = "Increasing"
        THEN find_cutpoint_increasing_enter(c, buff, size)
        ELSE find_cutpoint_decreasing_enter(c, buff, size))
       EXCEPT !.arg_size = size]

\* find_cutpoint returning min_block_size for a short input instead of size.
find_cutpoint_ShortReturnsMin(c, buff, size) ==
    IF size < c.min_block_size
    THEN Returned([IdleFrame EXCEPT !.buff = buff, !.size = size,
                                    !.arg_size = size], c.min_block_size)
    ELSE
      LET actual_size == Min(size, c.max_block_size)
      IN  [(IF c.op_mode = "Increasing"
            THEN find_cutpoint_increasing_enter(c, buff, actual_size)
            ELSE find_cutpoint_decreasing_enter(c, buff, actual_size))
           EXCEPT !.arg_size = size]

\* SeqChunking::find_cutpoint, lines 215-226: the short-input return, the cap
\* of size at max_block_size and the dispatch on op_mode.
find_cutpoint(c, buff, size) ==
    IF size < c.min_block_size
    THEN Returned([IdleFrame EXCEPT !.buff = buff, !.size = size,
                                    !.arg_size = size], size)
    ELSE
      LET actual_size == Min(size, c.max_block_size)
      IN  [(IF c.op_mode = "Increasing"
            THEN find_cutpoint_increasing_enter(c, buff, actual_size)
            ELSE find_cutpoint_decreasing_enter(c, buff, actual_size))
           EXCEPT !.arg_size = size]

\* One loop iteration of the scan routine that op_mode selected.
scan_step(c, f, checks) ==
    IF c.op_mode = "Increasing"
    THEN find_cutpoint_increasing_step(c, f, checks)
    ELSE find_cutpoint_decreasing_step(c, f, checks)

RECURSIVE RunScan(_, _, _, _)
\* The scan loop run from frame f until it returns or panics, for at most
\* fuel evaluations of the loop condition.
RunScan(c, f, checks, fuel) ==
    IF f.pc # "loop" \/ fuel = 0 THEN f
    ELSE RunScan(c, scan_step(c, f, checks), checks, fuel - 1)

\* Chunk::is_empty
is_empty(chunk) == chunk.len = 0

RECURSIVE coverage_loop(_, _, _, _)
\* validate_chunk_coverage, lines 100-117: the loop over the chunks from
\* index i (0-based) with the start it expects next.  chunk.end() is the
\* usize addition start + len: it panics on overflow when the build has
\* overflow checks on and wraps otherwise.
coverage_loop(chunks, i, expected_start, checks) ==
    IF i >= Len(chunks) THEN [kind |-> "end", msg |-> "",
                              expected_start |-> expected_start]
    ELSE
      LET chunk == chunks[i + 1]
      IN  IF chunk.start # expected_start
          THEN [kind |-> "Err", msg |-> "Chunk {} starts at {} but expected {}",
                expected_start |-> expected_start]
          ELSE IF is_empty(chunk)
          THEN [kind |-> "Err", msg |-> "Chunk {} is empty",
                expected_start |-> expected_start]
          ELSE IF AddOverflows(chunk.start, chunk.len) /\ checks
          THEN [kind |-> "panic", msg |-> "attempt to add with overflow",
                expected_start |-> expected_start]
          ELSE coverage_loop(chunks, i + 1,
                             WrappingAdd(chunk.start, chunk.len), checks)

\* ValidationUtils::validate_chunk_coverage, utils.rs lines 87-126.
validate_chunk_coverage(data_len, chunks, checks) ==
    IF chunks = <<>>
    THEN IF data_len = 0 THEN [kind |-> "Ok", msg |-> ""]
         ELSE [kind |-> "Err", msg |-> "No chunks found for non-empty data"]
    ELSE
      LET r == coverage_loop(chunks, 0, 0, checks)
      IN  IF r.kind # "end" THEN [kind |-> r.kind, msg |-> r.msg]
          ELSE IF r.expected_start # data_len
          THEN [kind |-> "Err",
                msg |-> "Chunks end at {} but data length is {}"]
          ELSE [kind |-> "Ok", msg |-> ""]

RECURSIVE SumSeq(_)
\* chunk_sizes.iter().sum()
SumSeq(q) == IF q = <<>> THEN 0 ELSE q[1] + SumSeq(Tail(q))

\* The statistics with one part changed (v): "min_first" takes the first
\* chunk's length as the minimum.
from_chunks_variant(chunks, total_size, v) ==
    IF chunks = <<>>
    THEN [kind |-> "Ok", chunk_count |-> 0, total_size |-> total_size,
          avg_chunk_size |-> <<0, 1>>, min_chunk_size |-> 0,
          max_chunk_size |-> 0, chunk_size_stddev |-> [squared |-> <<0, 1>>]]
    ELSE
      LET chunk_sizes == [k \in 1 .. Len(chunks) |-> chunks[k].len]
          chunk_count == Len(chunks)
          sum == SumSeq(chunk_sizes)
          sizes == {chunk_sizes[k] : k \in 1 .. chunk_count}
          min_size == IF v = "min_first" THEN chunk_sizes[1]
                      ELSE CHOOSE m \in sizes : \A x \in sizes : m <= x
          max_size == CHOOSE m \in sizes : \A x \in sizes : m >= x
          deviations == [k \in 1 .. chunk_count |->
                           (chunk_count * chunk_sizes[k] - sum)
                           * (chunk_count * chunk_sizes[k] - sum)]
      IN  [kind |-> "Ok", chunk_count |-> chunk_count,
           total_size |-> total_size, avg_chunk_size |-> <<sum, chunk_count>>,
           min_chunk_size |-> min_size, max_chunk_size |-> max_size,
           chunk_size_stddev |->
             [squared |-> <<SumSeq(deviations),
                            chunk_count * chunk_count * chunk_count>>]]

\* from_chunks taking the first chunk's length as the minimum.
from_chunks_MinIsFirst(chunks, total_size) ==
    from_chunks_variant(chunks, total_size, "min_first")

\* ChunkingStats::from_chunks, chunker.rs lines 275-315.  The two f64 fields
\* are kept exact: avg_chunk_size is the fraction <<sum, chunk_count>> and
\* chunk_size_stddev is given by its square, the variance
\* sum((size - avg)^2) / chunk_count, as the fraction
\* <<sum((chunk_count * size - sum)^2), chunk_count^3>>.
from_chunks(chunks, total_size) ==
    IF chunks = <<>>
    THEN [kind |-> "Ok", chunk_count |-> 0, total_size |-> total_size,
          avg_chunk_size |-> <<0, 1>>, min_chunk_size |-> 0,
          max_chunk_size |-> 0, chunk_size_stddev |-> [squared |-> <<0, 1>>]]
    ELSE
      LET chunk_sizes == [k \in 1 .. Len(chunks) |-> chunks[k].len]
          chunk_count == Len(chunks)
          sum == SumSeq(chunk_sizes)
          sizes == {chunk_sizes[k] : k \in 1 .. chunk_count}
          min_size == CHOOSE m \in sizes : \A x \in sizes : m <= x
          max_size == CHOOSE m \in sizes : \A x \in sizes : m >= x
          deviations == [k \in 1 .. chunk_count |->
                           (chunk_count * chunk_sizes[k] - sum)
                           * (chunk_count * chunk_sizes[k] - sum)]
      IN  [kind |-> "Ok", chunk_count |-> chunk_count,
           total_size |-> total_size, avg_chunk_size |-> <<sum, chunk_count>>,
           min_chunk_size |-> min_size, max_chunk_size |-> max_size,
           chunk_size_stddev |->
             [squared |-> <<SumSeq(deviations),
                            chunk_count * chunk_count * chunk_count>>]]

\* --------------------------------------------------------- state machine

\* Iterators a caller may hold at once, and the callers of find_cutpoint:
\* 0 is a direct call of the public finder, i > 0 is ChunkIterator i.
Iters == {1, 2}
Callers == {0} \cup Iters

\* Buffers and sizes of a direct find_cutpoint call (size is independent of
\* the buffer's length).
DirectBuffers == SeqsUpTo(Bytes, MaxLen - 1)
DirectSizes == 0 .. MaxLen

VARIABLES
    built,      \* what the configuration builder returned (input: what it held)
    chunker,    \* what the SeqChunking constructor returned
    profile,    \* overflow checks of the build: "any" until an add overflows
    iter,       \* ChunkIterator i: its state, buffer, position, emitted chunks
    frame,      \* the find_cutpoint activation of each caller
    coverage,   \* what validate_chunk_coverage returned, with its arguments
    stats       \* what SeqChunking::stats returned

vars == <<built, chunker, profile, iter, frame, coverage, stats>>

Unborn ==
    [state |-> "unborn", data |-> <<>>, position |-> 0, chunks |-> <<>>,
     returned |-> ""]

Born(i) == iter[i].state # "unborn"
DoneIter(i) == iter[i].state = "done"

\* No call of validate_chunk_coverage / of stats has been made.
NoCoverage == [kind |-> "none", msg |-> "", data_len |-> 0, chunks |-> <<>>]
NoStats ==
    [kind |-> "none", chunk_count |-> 0, total_size |-> 0,
     avg_chunk_size |-> <<0, 1>>, min_chunk_size |-> 0, max_chunk_size |-> 0,
     chunk_size_stddev |-> [squared |-> <<0, 1>>], data |-> <<>>,
     chunks |-> <<>>]

Init ==
    /\ built = [kind |-> "none", config |-> NoConfig, msg |-> "", via |-> "",
                input |-> NoConfig]
    /\ chunker = [kind |-> "none", config |-> NoConfig, msg |-> "", ctor |-> ""]
    /\ profile = "any"
    /\ iter = [i \in Iters |-> Unborn]
    /\ frame = [k \in Callers |-> IdleFrame]
    /\ coverage = NoCoverage
    /\ stats = NoStats

\* ChunkingConfig::builder() ... .build(): the setters give every field its
\* value, build validates and returns the configuration or the error.
Build(C) ==
    /\ built.kind = "none"
    /\ \E c \in C :
         built' = IF validate(c) = "Ok"
                  THEN [kind |-> "Ok", config |-> c, msg |-> "",
                        via |-> "build", input |-> c]
                  ELSE [kind |-> "Err", config |-> NoConfig,
                        msg |-> validate(c), via |-> "build", input |-> c]
    /\ UNCHANGED <<chunker, profile, iter, frame>>
    /\ UNCHANGED <<coverage, stats>>

\* ChunkingConfig::builder() ... .build_unchecked(): no validation.
BuildUnchecked(C) ==
    /\ built.kind = "none"
    /\ \E c \in C :
         built' = [kind |-> "Ok", config |-> c, msg |-> "",
                   via |-> "build_unchecked", input |-> c]
    /\ UNCHANGED <<chunker, profile, iter, frame>>
    /\ UNCHANGED <<coverage, stats>>

\* The configuration is moved into the chunker.
Moved ==
    [kind |-> "moved", config |-> NoConfig, msg |-> "", via |-> "",
     input |-> NoConfig]

\* SeqChunking::from_config: stores the configuration as it is.
FromConfig ==
    /\ built.kind = "Ok"
    /\ chunker.kind = "none"
    /\ chunker' = [kind |-> "Ok", config |-> built.config, msg |-> "",
                   ctor |-> "from_config"]
    /\ built' = Moved
    /\ UNCHANGED <<profile, iter, frame>>
    /\ UNCHANGED <<coverage, stats>>

\* try_from_config that skips the validation.
TryFromConfig_NoValidate ==
    /\ built.kind = "Ok"
    /\ chunker.kind = "none"
    /\ chunker' = [kind |-> "Ok", config |-> built.config, msg |-> "",
                   ctor |-> "try_from_config"]
    /\ built' = Moved
    /\ UNCHANGED <<profile, iter, frame>>
    /\ UNCHANGED <<coverage, stats>>

\* SeqChunking::try_from_config: validate, then from_config.
TryFromConfig ==
    /\ built.kind = "Ok"
    /\ chunker.kind = "none"
    /\ chunker' = IF validate(built.config) = "Ok"
                  THEN [kind |-> "Ok", config |-> built.config, msg |-> "",
                        ctor |-> "try_from_config"]
                  ELSE [kind |-> "Err", config |-> NoConfig,
                        msg |-> validate(built.config),
                        ctor |-> "try_from_config"]
    /\ built' = Moved
    /\ UNCHANGED <<profile, iter, frame>>
    /\ UNCHANGED <<coverage, stats>>

\* SeqChunking::chunk_all / ChunkIterator::new: iterator i over a buffer of B.
ChunkAll(i, B) ==
    /\ chunker.kind = "Ok"
    /\ iter[i].state = "unborn"
    /\ frame[0].pc = "idle"
    /\ \E d \in B :
         iter' = [iter EXCEPT ![i] = [state |-> "ready", data |-> d,
                                      position |-> 0, chunks |-> <<>>,
                                      returned |-> ""]]
    /\ UNCHANGED <<built, chunker, profile, frame>>
    /\ UNCHANGED <<coverage, stats>>

\* ChunkIterator::next, lines 55-62: None at the end of the buffer, otherwise
\* the call of find_cutpoint on the unconsumed suffix.
IterNextCall(i) ==
    /\ iter[i].state = "ready"
    /\ IF iter[i].position >= Len(iter[i].data)
       THEN /\ iter' = [iter EXCEPT ![i].state = "done",
                                    ![i].returned = "None"]
            /\ UNCHANGED frame
       ELSE LET remaining == SliceFrom(iter[i].data, iter[i].position)
            IN  /\ frame' = [frame EXCEPT ![i] =
                               find_cutpoint(chunker.config, remaining,
                                             Len(remaining))]
                /\ iter' = [iter EXCEPT ![i].state = "in_next"]
    /\ UNCHANGED <<built, chunker, profile>>
    /\ UNCHANGED <<coverage, stats>>

\* What next() records when it returns None: a first None, or a None after
\* an earlier None.
NoneReturned(i) ==
    IF iter[i].returned \in {"None", "NoneAgain"} THEN "NoneAgain" ELSE "None"

\* ChunkIterator::next, lines 55-62, called on an iterator that has already
\* returned None: the same code runs on the position it was left with.
IterNextAgain(i) ==
    /\ iter[i].state = "done"
    /\ IF iter[i].position >= Len(iter[i].data)
       THEN /\ iter' = [iter EXCEPT ![i].returned = NoneReturned(i)]
            /\ UNCHANGED frame
       ELSE LET remaining == SliceFrom(iter[i].data, iter[i].position)
            IN  /\ frame' = [frame EXCEPT ![i] =
                               find_cutpoint(chunker.config, remaining,
                                             Len(remaining))]
                /\ iter' = [iter EXCEPT ![i].state = "in_next"]
    /\ UNCHANGED <<built, chunker, profile>>
    /\ UNCHANGED <<coverage, stats>>

\* next() with one part changed: how the chunk's start is taken, where its
\* data is sliced from, or which cursors the advance moves.
IterNextReturnVariant(i, startAfter, fromBufferStart, shared) ==
    /\ iter[i].state = "in_next"
    /\ frame[i].pc = "ret"
    /\ LET remaining == SliceFrom(iter[i].data, iter[i].position)
           chunk_size == Min(frame[i].ret, Len(remaining))
           src == IF fromBufferStart THEN iter[i].data ELSE remaining
           st == IF startAfter THEN iter[i].position + chunk_size
                 ELSE iter[i].position
       IN  IF chunk_size = 0
           THEN iter' = [iter EXCEPT ![i].state = "done",
                                     ![i].returned = NoneReturned(i)]
           ELSE iter' = [j \in Iters |->
                   IF j = i
                   THEN [iter[i] EXCEPT
                           !.state = "ready",
                           !.returned = "Some",
                           !.chunks = Append(@, [data |-> SliceTo(src, chunk_size),
                                                 start |-> st,
                                                 len |-> chunk_size]),
                           !.position = @ + chunk_size]
                   ELSE IF shared /\ Born(j)
                   THEN [iter[j] EXCEPT !.position =
                           Min(@ + chunk_size, Len(iter[j].data))]
                   ELSE iter[j]]
    /\ frame' = [frame EXCEPT ![i] = IdleFrame]
    /\ UNCHANGED <<built, chunker, profile>>
    /\ UNCHANGED <<coverage, stats>>

\* The chunk's start read after the cursor has advanced.
IterNextReturn_StartAfterAdvance(i) == IterNextReturnVariant(i, TRUE, FALSE, FALSE)
\* The chunk's data sliced from the start of the buffer.
IterNextReturn_DataFromBufferStart(i) == IterNextReturnVariant(i, FALSE, TRUE, FALSE)
\* One cursor shared by all iterators.
IterNextReturn_SharedPosition(i) == IterNextReturnVariant(i, FALSE, FALSE, TRUE)

\* next() emitting the chunk without advancing the cursor.
IterNextReturn_NoAdvance(i) ==
    /\ iter[i].state = "in_next"
    /\ frame[i].pc = "ret"
    /\ LET remaining == SliceFrom(iter[i].data, iter[i].position)
           chunk_size == Min(frame[i].ret, Len(remaining))
       IN  IF chunk_size = 0
           THEN iter' = [iter EXCEPT ![i].state = "done",
                                     ![i].returned = NoneReturned(i)]
           ELSE iter' = [iter EXCEPT
                   ![i].state = "ready",
                   ![i].returned = "Some",
                   ![i].chunks = Append(@, [data |-> SliceTo(remaining, chunk_size),
                                            start |-> iter[i].position,
                                            len |-> chunk_size])]
    /\ frame' = [frame EXCEPT ![i] = IdleFrame]
    /\ UNCHANGED <<built, chunker, profile>>
    /\ UNCHANGED <<coverage, stats>>

\* ChunkIterator::next, lines 63-73: clamp the cutpoint, stop on a zero
\* length, otherwise emit the chunk and advance.
IterNextReturn(i) ==
    /\ iter[i].state = "in_next"
    /\ frame[i].pc = "ret"
    /\ LET remaining == SliceFrom(iter[i].data, iter[i].position)
           chunk_size == Min(frame[i].ret, Len(remaining))
       IN  IF chunk_size = 0
           THEN iter' = [iter EXCEPT ![i].state = "done",
                                     ![i].returned = NoneReturned(i)]
           ELSE iter' = [iter EXCEPT
                   ![i].state = "ready",
                   ![i].returned = "Some",
                   ![i].chunks = Append(@, [data |-> SliceTo(remaining, chunk_size),
                                            start |-> iter[i].position,
                                            len |-> chunk_size]),
                   ![i].position = @ + chunk_size]
    /\ frame' = [frame EXCEPT ![i] = IdleFrame]
    /\ UNCHANGED <<built, chunker, profile>>
    /\ UNCHANGED <<coverage, stats>>

\* A direct call of the public find_cutpoint(buff, size).
FindCutpointCall ==
    /\ chunker.kind = "Ok"
    /\ frame[0].pc = "idle"
    /\ \A i \in Iters : iter[i].state = "unborn"
    /\ \E buff \in DirectBuffers, size \in DirectSizes :
         frame' = [frame EXCEPT ![0] =
                     find_cutpoint(chunker.config, buff, size)]
    /\ UNCHANGED <<built, chunker, profile, iter>>
    /\ UNCHANGED <<coverage, stats>>

\* One iteration of the scan loop of caller k.  An overflowing add fixes the
\* build profile: it panics under "debug" and wraps under "release".
ScanLoop(k) ==
    /\ frame[k].pc = "loop"
    /\ LET c == chunker.config
           f == frame[k]
           overflows == scan_step(c, f, TRUE) # scan_step(c, f, FALSE)
       IN  IF overflows
           THEN \E p \in {"debug", "release"} :
                  /\ profile \in {"any", p}
                  /\ profile' = p
                  /\ frame' = [frame EXCEPT ![k] = scan_step(c, f, p = "debug")]
           ELSE /\ profile' = profile
                /\ frame' = [frame EXCEPT ![k] = scan_step(c, f, FALSE)]
    /\ UNCHANGED <<built, chunker, iter>>
    /\ UNCHANGED <<coverage, stats>>

\* One caller, one iterator, every configuration the builder can be given.
Next ==
    \/ Build(ChunkingConfig)
    \/ BuildUnchecked(ChunkingConfig)
    \/ FromConfig
    \/ TryFromConfig
    \/ ChunkAll(1, Buffers)
    \/ \E i \in Iters : IterNextCall(i)
    \/ \E i \in Iters : IterNextReturn(i)
    \/ \E i \in Iters : IterNextAgain(i)
    \/ FindCutpointCall
    \/ \E k \in Callers : ScanLoop(k)

Spec == Init /\ [][Next]_vars

\* The configurations build() returns.
ValidConfigs == {c \in ChunkingConfig : validate(c) = "Ok"}

\* Two iterators over one buffer, stepped in any interleaving, under a
\* validated configuration.  The two scan routines differ only in the sign
\* they count as opposing, so one mode is enough to exercise the interleaving.
PairConfigs == {c \in ValidConfigs : c.op_mode = "Increasing"}

NextPair ==
    \/ Build(PairConfigs)
    \/ TryFromConfig
    \/ ChunkAll(1, Buffers)
    \/ Born(1) /\ ChunkAll(2, {iter[1].data})
    \/ \E i \in Iters : IterNextCall(i)
    \/ \E i \in Iters : IterNextReturn(i)
    \/ \E k \in Callers : ScanLoop(k)

SpecPair == Init /\ [][NextPair]_vars

\* One iteration over a buffer D, then one over a copy of D with one byte
\* changed, under a validated configuration.
Edits(D) == {[D EXCEPT ![p] = b] : p \in 1 .. Len(D), b \in Bytes} \ {D}

NextEdit ==
    \/ Build(ValidConfigs)
    \/ TryFromConfig
    \/ ChunkAll(1, Buffers)
    \/ DoneIter(1) /\ ChunkAll(2, Edits(iter[1].data))
    \/ \E i \in Iters : IterNextCall(i)
    \/ \E i \in Iters : IterNextReturn(i)
    \/ \E k \in Callers : ScanLoop(k)

SpecEdit == Init /\ [][NextEdit]_vars

\* Direct calls of the public finder under a validated configuration, on
\* buffers long enough to hold a run of seq_threshold + 1 bytes after
\* min_block_size bytes, with any size argument.
FinderBuffers == SeqsUpTo(Bytes, MaxLen + 1)
FinderSizes == 0 .. MaxLen + 2
FinderConfigs ==
    {c \in [seq_threshold : SeqThresholds, jump_trigger : JumpTriggers,
            jump_size : JumpSizes, op_mode : SeqOpMode,
            min_block_size : MinBlockSizes, avg_block_size : AvgBlockSizes,
            max_block_size : 0 .. MaxBlock + 1] : validate(c) = "Ok"}

FindCutpointOn(B, S) ==
    /\ chunker.kind = "Ok"
    /\ frame[0].pc = "idle"
    /\ \A i \in Iters : iter[i].state = "unborn"
    /\ \E buff \in B, size \in S :
         frame' = [frame EXCEPT ![0] =
                     find_cutpoint(chunker.config, buff, size)]
    /\ UNCHANGED <<built, chunker, profile, iter>>
    /\ UNCHANGED <<coverage, stats>>

NextFinder ==
    \/ Build(FinderConfigs)
    \/ TryFromConfig
    \/ FindCutpointOn(FinderBuffers, FinderSizes)
    \/ ScanLoop(0)

SpecFinder == Init /\ [][NextFinder]_vars

\* Chunk sequences a caller can materialise and hand to the validator: the
\* fields of Chunk are public, so start and len are any usize.
MaxChunks == 2
ChunkWords == {0, 1, 2, WordMax}
AnyChunks == [data : {<<>>}, start : ChunkWords, len : ChunkWords]
AnyChunkSeqs == SeqsUpTo(AnyChunks, MaxChunks)
DataLens == 0 .. MaxLen

\* A call validate_chunk_coverage(data_len, chunks).  An overflowing
\* chunk.end() fixes the build profile, as in ScanLoop.
ValidateCoverageCall(data_len, chunks) ==
    LET overflows == validate_chunk_coverage(data_len, chunks, TRUE)
                       # validate_chunk_coverage(data_len, chunks, FALSE)
        result(checks) ==
          LET r == validate_chunk_coverage(data_len, chunks, checks)
          IN  [kind |-> r.kind, msg |-> r.msg, data_len |-> data_len,
               chunks |-> chunks]
    IN  IF overflows
        THEN \E p \in {"debug", "release"} :
               /\ profile \in {"any", p}
               /\ profile' = p
               /\ coverage' = result(p = "debug")
        ELSE /\ profile' = profile
             /\ coverage' = result(FALSE)

\* The validator called on a chunk sequence the caller made up.
ValidateCoverageAny ==
    /\ coverage.kind = "none"
    /\ built.kind = "none"
    /\ \E data_len \in DataLens, chunks \in AnyChunkSeqs :
         ValidateCoverageCall(data_len, chunks)
    /\ UNCHANGED <<built, chunker, iter, frame, stats>>

\* The validator called on the collected chunks of iterator i and the length
\* of its buffer (utils.rs lines 272-279).
ValidateCoverageOf(i) ==
    /\ coverage.kind = "none"
    /\ DoneIter(i)
    /\ ValidateCoverageCall(Len(iter[i].data), iter[i].chunks)
    /\ UNCHANGED <<built, chunker, iter, frame, stats>>

\* SeqChunking::stats(data): the chunks of the finished iteration i are
\* collected and reduced with the length of the buffer.
Stats(i) ==
    /\ stats.kind = "none"
    /\ DoneIter(i)
    /\ stats' = from_chunks(iter[i].chunks, Len(iter[i].data)) @@
                [data |-> iter[i].data, chunks |-> iter[i].chunks]
    /\ UNCHANGED <<built, chunker, profile, iter, frame, coverage>>

\* The derived outputs: the coverage validator on made-up chunk sequences,
\* and the validator and the statistics on the chunks of an iteration under
\* a validated configuration.
NextReport ==
    \/ ValidateCoverageAny
    \/ coverage.kind = "none" /\ Build(ValidConfigs)
    \/ TryFromConfig
    \/ ChunkAll(1, Buffers)
    \/ IterNextCall(1)
    \/ IterNextReturn(1)
    \/ ScanLoop(1)
    \/ ValidateCoverageOf(1)
    \/ Stats(1)

SpecReport == Init /\ [][NextReport]_vars

\* ------------------------------------------------------------ properties

\* The configuration invariant of the data model: what "validated" means.
ConfigInvariant(c) ==
    /\ c.seq_threshold > 0
    /\ c.min_block_size > 0
    /\ c.jump_size > 0
    /\ c.max_block_size >= c.min_block_size

\* The chunker exists and holds a configuration that satisfies the invariant.
ValidChunker == chunker.kind = "Ok" /\ ConfigInvariant(chunker.config)

RECURSIVE Flatten(_)
\* The concatenation of the data views of a chunk sequence.
Flatten(chunks) ==
    IF chunks = <<>> THEN <<>>
    ELSE chunks[1].data \o Flatten(Tail(chunks))

\* C1: under a validated configuration the chunks an iterator has emitted are
\* contiguous from 0 (chunk 1 starts at 0, each later chunk starts at the end
\* of the one before, the cursor sits at the end of the last one), and when
\* the iterator has returned None the last chunk ends at len(D).
C1_ContiguousCover ==
    ValidChunker =>
      \A i \in Iters :
        LET ch == iter[i].chunks
            n == Len(ch)
        IN  /\ n > 0 => ch[1].start = 0
            /\ \A k \in 1 .. n - 1 : ch[k + 1].start = end(ch[k])
            /\ n > 0 => iter[i].position = end(ch[n])
            /\ DoneIter(i) /\ n > 0 => end(ch[n]) = Len(iter[i].data)
            /\ DoneIter(i) /\ n = 0 => Len(iter[i].data) = 0

\* C1 witness: a finished iteration of a full-length buffer in three chunks.
C1_Witness ==
    /\ ValidChunker
    /\ DoneIter(1)
    /\ Len(iter[1].data) = MaxLen
    /\ Len(iter[1].chunks) >= 3

\* C2: under a validated configuration every emitted chunk's data is
\* D[start .. start+len), and when the iterator has returned None the
\* concatenation of the chunk data in emitted order is D.
C2_RoundTrip ==
    ValidChunker =>
      \A i \in Iters :
        /\ \A k \in 1 .. Len(iter[i].chunks) :
             LET c == iter[i].chunks[k]
             IN  c.data = SubSeq(iter[i].data, c.start + 1, c.start + c.len)
        /\ DoneIter(i) => Flatten(iter[i].chunks) = iter[i].data

\* C2 witness: a finished iteration whose chunks differ in content.
C2_Witness ==
    /\ ValidChunker
    /\ DoneIter(1)
    /\ Len(iter[1].chunks) >= 2
    /\ iter[1].chunks[1].data # iter[1].chunks[2].data
    /\ Len(iter[1].chunks[2].data) >= 2

\* C3 (as stated): under a validated configuration every emitted chunk
\* that is followed by another has min_block_size <= len <= max_block_size.
C3_NonLastWithinBounds ==
    ValidChunker =>
      \A i \in Iters :
        \A k \in 1 .. Len(iter[i].chunks) - 1 :
          /\ chunker.config.min_block_size <= iter[i].chunks[k].len
          /\ iter[i].chunks[k].len <= chunker.config.max_block_size

\* C4: under a validated configuration every emitted chunk has len >= 1, an
\* empty buffer yields no chunk, and an iterator that has returned None has
\* emitted no chunk only if the buffer is empty.
C4_NonEmptyChunks ==
    ValidChunker =>
      \A i \in Iters :
        /\ \A k \in 1 .. Len(iter[i].chunks) : iter[i].chunks[k].len >= 1
        /\ Born(i) /\ Len(iter[i].data) = 0 => iter[i].chunks = <<>>
        /\ DoneIter(i) /\ iter[i].chunks = <<>> => Len(iter[i].data) = 0

\* C4 witness: a finished iteration of a non-empty buffer that emitted a
\* chunk of the smallest length, 1.
C4_Witness ==
    /\ ValidChunker
    /\ DoneIter(1)
    /\ Len(iter[1].data) > 0
    /\ \E k \in 1 .. Len(iter[1].chunks) : iter[1].chunks[k].len = 1

\* C5 (as stated): under a validated configuration no find_cutpoint call
\* fails (panics) and none runs more loop iterations than the bytes of its
\* scan window, so every call and every iteration comes to an end.
C5_Total ==
    ValidChunker =>
      \A k \in Callers :
        /\ frame[k].pc # "panic"
        /\ frame[k].iters <= frame[k].size

\* C6: under a validated configuration a find_cutpoint call with size > 0
\* returns an offset in [1, size], and the iterator never computes a clamped
\* length of 0 (it returns None only at the end of the buffer).
C6_CutpointInRange ==
    ValidChunker =>
      /\ \A k \in Callers :
           frame[k].pc = "ret" /\ frame[k].arg_size > 0 =>
             1 <= frame[k].ret /\ frame[k].ret <= frame[k].arg_size
      /\ \A i \in Iters :
           /\ iter[i].state = "in_next" /\ frame[i].pc = "ret" =>
                Min(frame[i].ret,
                    Len(SliceFrom(iter[i].data, iter[i].position))) > 0
           /\ DoneIter(i) => iter[i].position >= Len(iter[i].data)

\* C6 witness: a direct call whose size exceeds the buffer returned from
\* inside the scan loop.
C6_Witness ==
    /\ ValidChunker
    /\ frame[0].pc = "ret"
    /\ frame[0].arg_size > Len(frame[0].buff)
    /\ frame[0].iters > 0
    /\ frame[0].ret < frame[0].arg_size

\* C7: build returns Ok exactly for the configurations that satisfy the
\* invariant (and then returns the configuration it was given); otherwise it
\* returns an error whose message names a rule the configuration violates,
\* the seq_threshold rule whenever seq_threshold = 0 and the size-ordering
\* rule when only max_block_size < min_block_size is wrong.
C7_ValidateIff ==
    built.via = "build" =>
      LET c == built.input
      IN  /\ built.kind \in {"Ok", "Err"}
          /\ built.kind = "Ok" <=> ConfigInvariant(c)
          /\ built.kind = "Ok" => built.config = c
          /\ built.kind = "Err" =>
               \/ /\ built.msg = "seq_threshold must be greater than 0"
                  /\ c.seq_threshold = 0
               \/ /\ built.msg = "min_block_size must be greater than 0"
                  /\ c.min_block_size = 0
               \/ /\ built.msg = "max_block_size must be >= min_block_size"
                  /\ c.max_block_size < c.min_block_size
               \/ /\ built.msg = "jump_size must be greater than 0"
                  /\ c.jump_size = 0
          /\ c.seq_threshold = 0 =>
               built.msg = "seq_threshold must be greater than 0"
          /\ (/\ c.seq_threshold > 0
              /\ c.min_block_size > 0
              /\ c.max_block_size < c.min_block_size) =>
               built.msg = "max_block_size must be >= min_block_size"

\* C7 witness: build rejected a configuration whose only fault is jump_size.
C7_Witness ==
    /\ built.via = "build"
    /\ built.kind = "Err"
    /\ built.msg = "jump_size must be greater than 0"
    /\ built.input.seq_threshold > 0
    /\ built.input.min_block_size > 0
    /\ built.input.max_block_size >= built.input.min_block_size

\* C8 (as stated): every chunker that exists holds a configuration that
\* satisfies the invariant, so no find_cutpoint call runs on an invalid one.
C8_NoInvalidChunker ==
    /\ chunker.kind = "Ok" => ConfigInvariant(chunker.config)
    /\ \A k \in Callers :
         frame[k].pc # "idle" => ConfigInvariant(chunker.config)

\* C8 (amended): the validating constructors fail closed.  build returns a
\* configuration only if it satisfies the invariant, and try_from_config
\* returns a chunker only if its configuration does and an error otherwise.
C8_CheckedConstructionFailsClosed ==
    /\ built.via = "build" /\ built.kind = "Ok" => ConfigInvariant(built.config)
    /\ built.via = "build" /\ ~ConfigInvariant(built.input) => built.kind = "Err"
    /\ chunker.ctor = "try_from_config" =>
         \/ chunker.kind = "Ok" /\ ConfigInvariant(chunker.config)
         \/ chunker.kind = "Err" /\ chunker.config = NoConfig

\* C8 witness: try_from_config refused an unvalidated configuration.
C8_Witness ==
    /\ chunker.ctor = "try_from_config"
    /\ chunker.kind = "Err"
    /\ chunker.msg = "max_block_size must be >= min_block_size"

IsPrefix(a, b) == Len(a) <= Len(b) /\ a = SubSeq(b, 1, Len(a))

\* C9: two iterators over equal buffers, stepped in any interleaving, emit
\* the same chunk sequence: at every moment one's sequence is a prefix of the
\* other's, the one further along in the buffer has emitted at least as much,
\* and once both have returned None the sequences are equal.  No step changes
\* the buffer an iterator was created over, nor the chunker's configuration.
C9_SameSequence ==
    \A i, j \in Iters :
      Born(i) /\ Born(j) /\ iter[i].data = iter[j].data =>
        /\ IsPrefix(iter[i].chunks, iter[j].chunks)
             \/ IsPrefix(iter[j].chunks, iter[i].chunks)
        /\ iter[i].position <= iter[j].position =>
             IsPrefix(iter[i].chunks, iter[j].chunks)
        /\ DoneIter(i) /\ DoneIter(j) => iter[i].chunks = iter[j].chunks

C9_InputsUnchanged ==
    /\ chunker.kind = "Ok" => chunker' = chunker
    /\ \A i \in Iters : Born(i) => iter'[i].data = iter[i].data

C9_Determinism == [](C9_SameSequence) /\ [][C9_InputsUnchanged]_vars

\* C9 witness: the iterators over one buffer are at different chunks, one of
\* them in the middle of a scan, and the first has emitted a chunk the second
\* has not.
C9_Witness ==
    /\ Born(1) /\ Born(2)
    /\ iter[1].data = iter[2].data
    /\ Len(iter[1].chunks) >= 2
    /\ Len(iter[2].chunks) = 1
    /\ frame[2].pc = "loop"
    /\ frame[2].iters >= 1

\* D and E have equal length and differ exactly in the byte at offset p.
DiffersOnlyAt(D, E, p) ==
    /\ Len(D) = Len(E)
    /\ p < Len(D)
    /\ D[p + 1] # E[p + 1]
    /\ \A q \in 1 .. Len(D) : q # p + 1 => D[q] = E[q]

\* Chunk k of iterator i is emitted identically (same start and len) by
\* iterator j: j's k-th chunk, once emitted, is that chunk, and j does not
\* return None before emitting it.
EmittedIdentically(i, k, j) ==
    /\ Len(iter[j].chunks) >= k =>
         /\ iter[j].chunks[k].start = iter[i].chunks[k].start
         /\ iter[j].chunks[k].len = iter[i].chunks[k].len
    /\ DoneIter(j) => Len(iter[j].chunks) >= k

\* Locality with respect to Before(chunk, p): if the buffers of the two
\* iterators differ only in the byte at offset p, every chunk of one that is
\* Before p is emitted identically by the other.
Locality(Before(_, _)) ==
    Born(1) /\ Born(2) /\ Len(iter[1].data) = Len(iter[2].data) =>
      \A p \in 0 .. Len(iter[1].data) - 1 :
        DiffersOnlyAt(iter[1].data, iter[2].data, p) =>
          \A i, j \in Iters :
            i # j =>
              \A k \in 1 .. Len(iter[i].chunks) :
                Before(iter[i].chunks[k], p) => EmittedIdentically(i, k, j)

EndsAtOrBefore(chunk, p) == end(chunk) <= p
WindowBefore(chunk, p) == chunk.start + chunker.config.max_block_size <= p

\* C10 (as stated): if the buffers of two iterators differ only in the byte
\* at offset p, every chunk of one that ends at or before p (end <= p) is
\* emitted identically by the other.
C10_LocalityEndLeqP == Locality(EndsAtOrBefore)

\* C10 (amended): if the buffers of two iterators differ only in the byte at
\* offset p, every chunk of one whose scan window lies before the changed
\* byte (start + max_block_size <= p) is emitted identically by the other.
C10_LocalityWindowBeforeP == Locality(WindowBefore)

\* C10 witness: both iterations are finished, the first chunk's scan window
\* lies before the changed byte and the chunk is shared, and the sequences
\* differ after it.
C10_Witness ==
    \E p \in 0 .. MaxLen :
      /\ DiffersOnlyAt(iter[1].data, iter[2].data, p)
      /\ DoneIter(1) /\ DoneIter(2)
      /\ Len(iter[1].chunks) >= 2 /\ Len(iter[2].chunks) >= 2
      /\ chunker.config.max_block_size <= p
      /\ iter[1].chunks[1].len = iter[2].chunks[1].len
      /\ iter[1].chunks[2].len # iter[2].chunks[2].len

\* A call of find_cutpoint with size < min_block_size has returned size and
\* has run no loop iteration, whatever buff holds and however long it is.
ShortCallReturnsSize ==
    \A k \in Callers :
      frame[k].pc # "idle" /\ frame[k].arg_size < chunker.config.min_block_size =>
        /\ frame[k].pc = "ret"
        /\ frame[k].ret = frame[k].arg_size
        /\ frame[k].iters = 0

\* Iterator i over a buffer shorter than min_block_size emits one chunk
\* spanning the buffer: never more than one, the one emitted is {0, len(D)},
\* and it has been emitted when the iterator has returned None.
OneChunkSpanning(i) ==
    /\ Len(iter[i].chunks) <= 1
    /\ Len(iter[i].chunks) = 1 =>
         /\ iter[i].chunks[1].start = 0
         /\ iter[i].chunks[1].len = Len(iter[i].data)
         /\ iter[i].chunks[1].data = iter[i].data
    /\ DoneIter(i) => Len(iter[i].chunks) = 1

\* C11 (as stated): a find_cutpoint call with size < min_block_size returns
\* size without scanning, and chunk_all over every buffer D with
\* len(D) < min_block_size emits exactly one chunk spanning all of D.
C11_ShortInputOneChunk ==
    /\ ShortCallReturnsSize
    /\ \A i \in Iters :
         Born(i) /\ Len(iter[i].data) < chunker.config.min_block_size =>
           OneChunkSpanning(i)

\* C11 (amended): a find_cutpoint call with size < min_block_size returns
\* size without scanning, and chunk_all over every non-empty buffer D with
\* len(D) < min_block_size emits exactly one chunk spanning all of D (the
\* empty buffer yields no chunk).
C11_ShortNonEmptyInputOneChunk ==
    /\ ShortCallReturnsSize
    /\ \A i \in Iters :
         /\ (/\ Born(i)
             /\ Len(iter[i].data) > 0
             /\ Len(iter[i].data) < chunker.config.min_block_size) =>
               OneChunkSpanning(i)
         /\ Born(i) /\ Len(iter[i].data) = 0 => iter[i].chunks = <<>>

\* C11 witness: a finished iteration of a non-empty buffer shorter than
\* min_block_size, in one chunk.
C11_Witness ==
    /\ DoneIter(1)
    /\ Len(iter[1].data) > 0
    /\ Len(iter[1].data) < chunker.config.min_block_size
    /\ Len(iter[1].chunks) = 1

\* Every byte of D has the same value.
IsConstant(D) == \A q \in 1 .. Len(D) : D[q] = D[1]

\* C12: under a validated configuration, in either mode, every chunk of a
\* buffer of one repeated byte value that does not reach the end of the
\* buffer has length max_block_size, and a finished iteration of such a
\* buffer of length 3 * max_block_size has emitted exactly 3 chunks, each of
\* length max_block_size.
C12_ConstantCutAtCap ==
    ValidChunker =>
      \A i \in Iters :
        Born(i) /\ IsConstant(iter[i].data) =>
          LET ch == iter[i].chunks
              max == chunker.config.max_block_size
          IN  /\ \A k \in 1 .. Len(ch) :
                   (k < Len(ch) \/ end(ch[k]) < Len(iter[i].data)) =>
                     ch[k].len = max
              /\ DoneIter(i) /\ Len(iter[i].data) = 3 * max =>
                   /\ Len(ch) = 3
                   /\ \A k \in 1 .. 3 : ch[k].len = max

\* C12 witness: a finished Decreasing-mode iteration of a constant buffer of
\* length 3 * max_block_size, in three chunks.
C12_Witness ==
    /\ ValidChunker
    /\ chunker.config.op_mode = "Decreasing"
    /\ DoneIter(1)
    /\ IsConstant(iter[1].data)
    /\ Len(iter[1].data) = 3 * chunker.config.max_block_size
    /\ Len(iter[1].chunks) = 3

\* The comparison the scan loop makes next in frame f: whether the loop
\* condition holds, and the sign of buff[cursor] - buff[cursor - 1] read
\* against the mode (an equal pair is neither reinforcing nor opposing).
InWindow(f) ==
    f.curr_pos < f.size /\ f.curr_pos < Len(f.buff) /\ f.curr_pos > 0
Difference(f) == f.buff[f.curr_pos + 1] - f.buff[f.curr_pos]
EqualPair(f) == InWindow(f) /\ Difference(f) = 0
Reinforcing(f) ==
    /\ InWindow(f)
    /\ IF chunker.config.op_mode = "Increasing"
       THEN Difference(f) > 0 ELSE Difference(f) < 0
Opposing(f) == InWindow(f) /\ ~EqualPair(f) /\ ~Reinforcing(f)

\* Caller k's scan loop runs one iteration in this step.
ScanSteps(k) == frame[k].pc = "loop" /\ frame'[k] # frame[k]

\* The run-length counter counts the reinforcing comparisons since the last
\* opposing comparison or jump (equal pairs leave it alone), and the loop
\* returns the cursor position exactly at the comparison that brings the
\* counter to seq_threshold.
RunDetectionStep ==
    ValidChunker =>
      \A k \in Callers :
        ScanSteps(k) =>
          LET f == frame[k]
              g == frame'[k]
              c == chunker.config
              completes == Reinforcing(f) /\ f.curr_seq_length + 1 >= c.seq_threshold
          IN  /\ completes => g.pc = "ret" /\ g.ret = f.curr_pos
              /\ g.pc = "ret" /\ ~completes => g.ret = f.size
              /\ EqualPair(f) => g.curr_seq_length = f.curr_seq_length
              /\ Opposing(f) => g.curr_seq_length = 0
              /\ Reinforcing(f) /\ g.pc = "loop" =>
                   \/ g.curr_seq_length = f.curr_seq_length + 1
                   \/ /\ g.curr_seq_length = 0
                      /\ g.curr_pos = WrappingAdd(f.curr_pos, c.jump_size)

\* buff is constant (value buff[1]) apart from a strictly increasing run of n
\* bytes at offsets min_block_size .. min_block_size + n - 1 that rises from
\* the constant value, with n > seq_threshold and the run ending before
\* limit = min(size, max_block_size).
HoldsRun(c, buff, size, n) ==
    LET min == c.min_block_size
    IN  /\ n > c.seq_threshold
        /\ min + n <= Len(buff)
        /\ min + n - 1 < Min(size, c.max_block_size)
        /\ \A q \in 1 .. Len(buff) :
             q <= min + 1 \/ q > min + n => buff[q] = buff[1]
        /\ \A q \in min + 1 .. min + n - 1 : buff[q] < buff[q + 1]

\* A returned Increasing-mode call whose buffer holds such a run.
RunCall(k, n) ==
    /\ frame[k].pc = "ret"
    /\ chunker.config.op_mode = "Increasing"
    /\ HoldsRun(chunker.config, frame[k].buff, frame[k].arg_size, n)

\* C13 (as stated): under a validated configuration the loop returns the
\* cursor position of the first comparison at which the run-length counter
\* reaches seq_threshold, and for a constant buffer holding a strictly
\* increasing run longer than seq_threshold that starts at offset
\* min_block_size and ends before the limit, the Increasing-mode cutpoint is
\* strictly between min_block_size and size.
C13_RunCutStrictlyInside ==
    /\ [][RunDetectionStep]_vars
    /\ [](ValidChunker =>
            \A k \in Callers, n \in 1 .. MaxLen + 1 :
              RunCall(k, n) =>
                /\ frame[k].ret > chunker.config.min_block_size
                /\ frame[k].ret < frame[k].arg_size)
\* The byte-wise complement of a buffer (b replaced by 255 - b, the largest
\* byte value minus b), and a configuration with the mode inverted.
TopByte == CHOOSE b \in Bytes : \A x \in Bytes : x <= b
Complement(D) == [q \in 1 .. Len(D) |-> TopByte - D[q]]
OtherMode(c) ==
    [c EXCEPT !.op_mode = IF @ = "Increasing" THEN "Decreasing"
                          ELSE "Increasing"]

\* The call of frame f made again in the other mode on the complement of its
\* buffer, run for as many loop iterations as f has made and the exit test.
MirrorCall(f) ==
    RunScan(OtherMode(chunker.config),
            find_cutpoint(OtherMode(chunker.config), Complement(f.buff),
                          f.arg_size),
            profile # "release", f.iters + 1)

\* The call of frame f returned a cursor position from inside the loop.
Fired(f) == f.pc = "ret" /\ f.arg_size >= chunker.config.min_block_size
                        /\ f.ret < f.size

\* C14: for every configuration, buffer and size, a find_cutpoint call that
\* has returned (or panicked) does the same in the other mode on the
\* byte-wise complement of its buffer, with the same offset; so a run fires
\* in one mode where the mirrored run fires in the other.  Under a validated
\* configuration no cutpoint fires from a comparison inside a strictly
\* decreasing run in Increasing mode (the byte at the cutpoint is above the
\* byte before it), nor inside a strictly increasing run in Decreasing mode.
C14_ModeSymmetry ==
    \A k \in Callers :
      LET f == frame[k]
      IN  /\ f.pc \in {"ret", "panic"} =>
               /\ MirrorCall(f).pc = f.pc
               /\ MirrorCall(f).ret = f.ret
               /\ MirrorCall(f).curr_pos = f.curr_pos
          /\ ValidChunker /\ Fired(f) =>
               IF chunker.config.op_mode = "Increasing"
               THEN f.buff[f.ret + 1] > f.buff[f.ret]
               ELSE f.buff[f.ret + 1] < f.buff[f.ret]

\* C14 witness: a Decreasing-mode call fired at a falling pair after an
\* earlier comparison, and so does the Increasing-mode call on the
\* complement.
C14_Witness ==
    /\ ValidChunker
    /\ chunker.config.op_mode = "Decreasing"
    /\ Fired(frame[1])
    /\ frame[1].iters >= 2
    /\ frame[1].buff[frame[1].ret + 1] < frame[1].buff[frame[1].ret]
    /\ Fired(MirrorCall(frame[1]))
\* The comparison frame f makes next returns no cutpoint and leaves the
\* opposing-slope counter at or above jump_trigger: the loop skips ahead.
SkipsAhead(f) ==
    /\ Opposing(f) \/ Reinforcing(f)
    /\ (IF Opposing(f) THEN 0 ELSE f.curr_seq_length + 1)
         < chunker.config.seq_threshold
    /\ (IF Opposing(f) THEN f.opposing_slope_count + 1
        ELSE f.opposing_slope_count) >= chunker.config.jump_trigger

\* What a skip-ahead of frame f to frame g has to do: move the cursor by
\* jump_size, reset both counters, and return limit = min(size,
\* max_block_size) if the cursor is then at or past the limit or the end of
\* buff, and go on scanning otherwise.
SkipAheadEffect(f, g) ==
    /\ g.curr_pos = f.curr_pos + chunker.config.jump_size
    /\ g.opposing_slope_count = 0
    /\ g.curr_seq_length = 0
    /\ IF g.curr_pos >= f.size \/ g.curr_pos >= Len(f.buff)
       THEN /\ g.pc = "ret"
            /\ g.ret = Min(f.arg_size, chunker.config.max_block_size)
       ELSE g.pc = "loop"

\* C15 (as stated): when a comparison that returned no cutpoint leaves the
\* opposing-slope counter at or above jump_trigger, the cursor advances by
\* exactly jump_size and both counters are reset to 0, and if the cursor is
\* then at or past the limit or the end of buff the finder returns
\* limit = min(size, max_block_size).
C15_SkipAhead ==
    [][ValidChunker =>
         \A k \in Callers :
           ScanSteps(k) /\ SkipsAhead(frame[k]) =>
             SkipAheadEffect(frame[k], frame'[k])]_vars
\* C16: in both modes and for every configuration, a comparison of two equal
\* adjacent bytes advances the cursor by exactly 1, leaves the run-length
\* counter and the opposing-slope counter as they were and keeps scanning.
C16_EqualBytesAbsorbed ==
    [][\A k \in Callers :
         ScanSteps(k) /\ EqualPair(frame[k]) =>
           /\ frame'[k].pc = "loop"
           /\ frame'[k].curr_pos = frame[k].curr_pos + 1
           /\ frame'[k].curr_seq_length = frame[k].curr_seq_length
           /\ frame'[k].opposing_slope_count = frame[k].opposing_slope_count
           /\ frame'[k].buff = frame[k].buff
           /\ frame'[k].size = frame[k].size]_vars

\* C16 witness: a scan that has just passed an equal pair with a run in
\* progress (the counter is not 0, so the cursor came by a step of 1 from
\* the comparison of those two bytes).
C16_Witness ==
    \E k \in Iters :
      /\ frame[k].pc = "loop"
      /\ frame[k].curr_seq_length >= 1
      /\ frame[k].curr_pos >= 2
      /\ frame[k].buff[frame[k].curr_pos] = frame[k].buff[frame[k].curr_pos - 1]

\* The chunk-sequence invariants of the data model for a buffer of length n:
\* an empty sequence only for n = 0; otherwise the first chunk starts at 0,
\* each later chunk starts at the end of the one before, no chunk has length
\* 0 and the last chunk ends at n.
SequenceInvariant(n, chunks) ==
    IF chunks = <<>> THEN n = 0
    ELSE /\ chunks[1].start = 0
         /\ \A k \in 1 .. Len(chunks) - 1 :
              chunks[k + 1].start = chunks[k].start + chunks[k].len
         /\ \A k \in 1 .. Len(chunks) : chunks[k].len # 0
         /\ chunks[Len(chunks)].start + chunks[Len(chunks)].len = n

\* C17 (as stated): validate_chunk_coverage(data_len, chunks) returns Ok
\* exactly when the chunk sequence satisfies the chunk-sequence invariants
\* for data_len and an error otherwise, and it returns Ok for the chunks of
\* every finished iteration under a validated configuration.
C17_CoverageExact ==
    coverage.kind # "none" =>
      /\ coverage.kind \in {"Ok", "Err"}
      /\ coverage.kind = "Ok" <=>
           SequenceInvariant(coverage.data_len, coverage.chunks)
      /\ (/\ ValidChunker
          /\ DoneIter(1)
          /\ coverage.chunks = iter[1].chunks
          /\ coverage.data_len = Len(iter[1].data)) => coverage.kind = "Ok"

\* C18: under a validated configuration stats(D) raises no error and reports
\* total_size = len(D) and chunk_count = the number of chunks the iteration
\* over D emitted (at least 1 for a non-empty D), with min_chunk_size and
\* max_chunk_size the smallest and the largest emitted chunk length; for an
\* empty chunk sequence chunk_count, min_chunk_size, max_chunk_size, the
\* mean and the standard deviation are all 0.
C18_StatsOfChunks ==
    stats.kind # "none" /\ ValidChunker =>
      LET ch == stats.chunks
          lens == {ch[k].len : k \in 1 .. Len(ch)}
      IN  /\ stats.kind = "Ok"
          /\ DoneIter(1) /\ ch = iter[1].chunks /\ stats.data = iter[1].data
          /\ stats.total_size = Len(stats.data)
          /\ stats.chunk_count = Len(ch)
          /\ Len(stats.data) > 0 => stats.chunk_count >= 1
          /\ ch # <<>> =>
               /\ stats.min_chunk_size \in lens
               /\ stats.max_chunk_size \in lens
               /\ \A x \in lens : /\ stats.min_chunk_size <= x
                                  /\ x <= stats.max_chunk_size
          /\ ch = <<>> =>
               /\ stats.chunk_count = 0
               /\ stats.min_chunk_size = 0
               /\ stats.max_chunk_size = 0
               /\ stats.avg_chunk_size[1] = 0
               /\ stats.chunk_size_stddev.squared[1] = 0

\* C18 witness: statistics over chunks of different lengths whose first
\* chunk is not the smallest.
C18_Witness ==
    /\ stats.kind = "Ok"
    /\ ValidChunker
    /\ stats.chunk_count >= 2
    /\ stats.min_chunk_size < stats.chunks[1].len
    /\ stats.max_chunk_size = stats.chunks[1].len

\* ---------------------------------------------------------------------------
\* C19: forward-only, terminated-stays-terminated iterator
\* ---------------------------------------------------------------------------

\* The iterator has returned None from some call of next().
Terminated(i) == iter[i].returned \in {"None", "NoneAgain"}

\* One step of iterator i moves the cursor forward only, and strictly
\* forward when it emits a chunk.
ForwardStep(i) ==
    /\ iter'[i].position >= iter[i].position
    /\ Len(iter'[i].chunks) > Len(iter[i].chunks) =>
           iter'[i].position > iter[i].position

\* After a None, every later return of next() is a None, no chunk is
\* emitted and the cursor stays where it is.
StaysTerminated(i) ==
    Terminated(i) =>
        /\ Terminated(i)'
        /\ iter'[i].position = iter[i].position
        /\ iter'[i].chunks = iter[i].chunks

\* C19: for every configuration, the position of an iterator never
\* decreases and never exceeds the length of its buffer, it strictly
\* increases with every emitted chunk, and once next() has returned None
\* every later call of next() returns None with the position unchanged.
C19_ForwardOnlyStaysTerminated ==
    /\ [](\A i \in Iters : iter[i].position <= Len(iter[i].data))
    /\ [][\A i \in Iters : iter[i].state # "unborn" =>
              ForwardStep(i) /\ StaysTerminated(i)]_vars

\* An iterator that emitted two chunks, returned None at the end of its
\* buffer, was called again and returned None again.
C19_Witness ==
    \E i \in Iters :
        /\ iter[i].returned = "NoneAgain"
        /\ Len(iter[i].chunks) >= 2
        /\ iter[i].position = Len(iter[i].data)

\* A later call on an iterator that stopped on a zero-length cutpoint
\* before the end of its buffer: find_cutpoint runs again.
C19_WitnessZeroLength ==
    \E i \in Iters :
        /\ iter[i].state = "in_next"
        /\ Terminated(i)
        /\ iter[i].position < Len(iter[i].data)

\* ---------------------------------------------------------------------------
\* C20: bounds safety of find_cutpoint
\* ---------------------------------------------------------------------------

\* Caller k's scan runs its loop body in this step: it counts one more
\* iteration, which starts with the comparison of buff[curr_pos] and
\* buff[curr_pos - 1].
Compares(k) ==
    /\ frame[k].pc = "loop"
    /\ frame'[k].iters > frame[k].iters

\* C20: for any buffer, any size argument (larger than the buffer included)
\* and any configuration (min_block_size = 0 included), every byte comparison
\* of find_cutpoint happens at a cursor with 1 <= cursor < len(buff), so no
\* read of buff[cursor] or buff[cursor - 1] fails its bounds check.
C20_ComparisonsInBounds ==
    /\ [](\A k \in Callers : frame[k].pc # "oob")
    /\ [][\A k \in Callers : Compares(k) =>
              /\ 1 <= frame[k].curr_pos
              /\ frame[k].curr_pos < Len(frame[k].buff)]_vars

\* A direct call with a size larger than the buffer that compared bytes and
\* left the loop with the cursor at the end of the buffer, before the size.
C20_Witness ==
    /\ frame[0].pc = "ret"
    /\ frame[0].arg_size > Len(frame[0].buff)
    /\ frame[0].iters >= 1
    /\ frame[0].curr_pos = Len(frame[0].buff)
    /\ frame[0].curr_pos < frame[0].size

\* A direct call on a configuration with min_block_size = 0: the cursor
\* starts at 0 and the loop body never runs.
C20_WitnessZeroMin ==
    /\ frame[0].pc = "ret"
    /\ chunker.config.min_block_size = 0
    /\ frame[0].arg_size > 0
    /\ Len(frame[0].buff) > 0
    /\ frame[0].iters = 0

\* ---------------------------------------------------------------------------
\* C21: cursor progress without wrap-around
\* ---------------------------------------------------------------------------

\* One loop iteration of caller k moves the cursor forward only, and
\* strictly forward when the scan goes on after it.
CursorAdvances(k) ==
    /\ frame'[k].curr_pos >= frame[k].curr_pos
    /\ frame'[k].pc = "loop" => frame'[k].curr_pos > frame[k].curr_pos

\* C21 (as stated): for every validated configuration the scan cursor
\* strictly increases on every loop iteration of find_cutpoint, and
\* cursor + jump_size never overflows: no call stops on an overflowing add
\* and no cursor wraps to a smaller value.
C21_CursorProgress ==
    /\ [](ValidChunker => \A k \in Callers : frame[k].pc # "panic")
    /\ [][ValidChunker =>
             \A k \in Callers : Compares(k) => CursorAdvances(k)]_vars

\* ---------------------------------------------------------------------------
\* C22: a skip-ahead only after an opposing comparison
\* ---------------------------------------------------------------------------

\* What a reinforcing comparison of frame f has to do: count one more in the
\* run, return the cursor when the run reaches seq_threshold, and otherwise
\* move to the next byte with the opposing-slope counter untouched.
ReinforcingEffect(f, g) ==
    IF f.curr_seq_length + 1 >= chunker.config.seq_threshold
    THEN g.pc = "ret" /\ g.ret = f.curr_pos
    ELSE /\ g.pc = "loop"
         /\ g.curr_pos = f.curr_pos + 1
         /\ g.curr_seq_length = f.curr_seq_length + 1
         /\ g.opposing_slope_count = f.opposing_slope_count

\* C22 (as stated): for every validated configuration a reinforcing
\* comparison never causes a jump and never resets the run-length counter,
\* so seq_threshold consecutive reinforcing comparisons inside the scan
\* window always produce a cutpoint.
C22_JumpOnlyAfterOpposing ==
    [][ValidChunker =>
          \A k \in Callers :
              (Compares(k) /\ Reinforcing(frame[k])) =>
                  ReinforcingEffect(frame[k], frame'[k])]_vars


====
